---- MODULE Spec2Model ----
(***************************************************************************)
(* Model of python/sqlflow_submitter/tensorflow/keras_train_pred.py.       *)
(*                                                                         *)
(* The script imports seven configuration objects and the two functions    *)
(* train and pred, and, when it is run as the main program, calls train    *)
(* and then pred with keyword arguments.  The state machine below follows  *)
(* the interpreter statement by statement: the three imports, the guard,   *)
(* the evaluation of each call expression (which builds the dict literal   *)
(* of model_params), the time spent inside each callee and the way the     *)
(* call ends (return or exception).                                        *)
(*                                                                         *)
(* train and pred live in other files; while one of them runs it may       *)
(* change in place any object it was handed, it may raise, and on a normal *)
(* return train has persisted the model under its save argument while pred *)
(* has loaded that model and written its result table.                     *)
(***************************************************************************)
EXTENDS Integers, Sequences, FiniteSets, TLC

VARIABLES
    pc,        \* the statement about to run ("L14" .. "L33"), the callee being
               \* run ("in_train", "in_pred"), or how the run ended ("end", "raised")
    name,      \* __name__
    globals,   \* the module's namespace: name -> the object it is bound to
    imported,  \* the objects imported at line 14: object -> number of in-place
               \* changes made to it since the import
    dicts,     \* the dicts built by this file, by identity: identity -> contents
    calls,     \* the calls made, in order; each with its callee, its keyword
               \* arguments, what the arguments held and which models were
               \* persisted when it was made, and its outcome
    store,     \* the save identifiers a model is persisted under
    tables,    \* the result tables written
    exc,       \* the exception that ended the run
    muts       \* the number of in-place changes made by the callees

vars == <<pc, name, globals, imported, dicts, calls, store, tables, exc, muts>>

\* Number of in-place changes the callees make during one run of the script.
MaxMutations == 2

\* ---------------------------------------------------------------------------
\* Values

\* The names bound by the import of line 14.
ImportedNames ==
    {"datasource", "select", "validate_select", "feature_column_names",
     "feature_column_code", "feature_metas", "label_meta"}

\* The names bound by the imports of lines 15 and 16.
TrainName == "train"
PredName == "pred"

\* The ways the file can be loaded: run as a script, or imported.
ModuleNames == {"__main__", "sqlflow_submitter.tensorflow.keras_train_pred"}

\* The exceptions a callee can raise.
Failures == {"RuntimeError", "ValueError"}

NoExc == [src |-> "", err |-> ""]

\* An evaluated argument: an imported object (by identity), a string, an
\* integer, a boolean or a dict object built by this file (by identity).
Obj(o)  == [kind |-> "obj",  s |-> o,  n |-> 0]
Str(x)  == [kind |-> "str",  s |-> x,  n |-> 0]
Num(k)  == [kind |-> "int",  s |-> "", n |-> k]
Bool(b) == [kind |-> "bool", s |-> "", n |-> IF b THEN 1 ELSE 0]
Dict(i) == [kind |-> "dict", s |-> "", n |-> i]

\* ---------------------------------------------------------------------------
\* The expressions of the two call statements

\* The block left unguarded.
IsMainAlways(nm) == TRUE

\* if __name__ == "__main__":
IsMain(nm) == nm = "__main__"

\* {"n_classes": 3, "hidden_units":[10,20]} in the train call.
TrainModelParams == ("n_classes" :> 3) @@ ("hidden_units" :> <<10, 20>>)

\* {"n_classes": 3, "hidden_units":[10,20]} in the pred call.
PredModelParams == ("n_classes" :> 3) @@ ("hidden_units" :> <<10, 20>>)

TrainSave == "mymodel_keras"

PredSaveOther == "mymodel"

PredSave == "mymodel_keras"

\* The dict display of the train call builds a new object.
TrainModelParamsRef(ds) == Len(ds) + 1

\* A model_params hoisted into one shared object: pred is handed train's dict.
PredModelParamsRefShared(ds, cs) ==
    IF \E i \in 1..Len(cs) : cs[i].fn = TrainName
    THEN cs[CHOOSE i \in 1..Len(cs) : cs[i].fn = TrainName].kwargs["model_params"].n
    ELSE Len(ds) + 1

\* The dict display of the pred call builds a new object as well.
PredModelParamsRef(ds, cs) == Len(ds) + 1

\* Building a dict display at identity r: a new object holding the literal.
Alloc(ds, r, d) == IF r \in 1..Len(ds) THEN ds ELSE Append(ds, d)

\* train(...) with select and validate_select exchanged.
TrainKwargsSwapped(g, r) ==
    [k \in {"is_keras_model", "datasource", "estimator", "select",
            "validate_select", "feature_column_code", "feature_column_names",
            "feature_metas", "label_meta", "model_params", "save",
            "batch_size", "epochs", "verbose"} |->
        CASE k = "is_keras_model"       -> Bool(TRUE)
          [] k = "datasource"           -> Obj(g["datasource"])
          [] k = "estimator"            -> Str("sqlflow_models.DNNClassifier")
          [] k = "select"               -> Obj(g["validate_select"])
          [] k = "validate_select"      -> Obj(g["select"])
          [] k = "feature_column_code"  -> Obj(g["feature_column_code"])
          [] k = "feature_column_names" -> Obj(g["feature_column_names"])
          [] k = "feature_metas"        -> Obj(g["feature_metas"])
          [] k = "label_meta"           -> Obj(g["label_meta"])
          [] k = "model_params"         -> Dict(r)
          [] k = "save"                 -> Str(TrainSave)
          [] k = "batch_size"           -> Num(1)
          [] k = "epochs"               -> Num(1)
          [] k = "verbose"              -> Num(0)]

\* The keyword arguments of train(...), g the module's globals and r the
\* identity of the dict built for model_params.
TrainKwargs(g, r) ==
    [k \in {"is_keras_model", "datasource", "estimator", "select",
            "validate_select", "feature_column_code", "feature_column_names",
            "feature_metas", "label_meta", "model_params", "save",
            "batch_size", "epochs", "verbose"} |->
        CASE k = "is_keras_model"       -> Bool(TRUE)
          [] k = "datasource"           -> Obj(g["datasource"])
          [] k = "estimator"            -> Str("sqlflow_models.DNNClassifier")
          [] k = "select"               -> Obj(g["select"])
          [] k = "validate_select"      -> Obj(g["validate_select"])
          [] k = "feature_column_code"  -> Obj(g["feature_column_code"])
          [] k = "feature_column_names" -> Obj(g["feature_column_names"])
          [] k = "feature_metas"        -> Obj(g["feature_metas"])
          [] k = "label_meta"           -> Obj(g["label_meta"])
          [] k = "model_params"         -> Dict(r)
          [] k = "save"                 -> Str(TrainSave)
          [] k = "batch_size"           -> Num(1)
          [] k = "epochs"               -> Num(1)
          [] k = "verbose"              -> Num(0)]

\* pred(...) handed the validation query and the training-only arguments.
PredKwargsLikeTrain(g, r) ==
    [k \in {"is_keras_model", "datasource", "estimator", "select",
            "validate_select", "result_table", "feature_column_code",
            "feature_column_names", "feature_metas", "label_meta",
            "model_params", "save", "batch_size"} |->
        CASE k = "is_keras_model"       -> Bool(TRUE)
          [] k = "datasource"           -> Obj(g["datasource"])
          [] k = "estimator"            -> Str("sqlflow_models.DNNClassifier")
          [] k = "select"               -> Obj(g["validate_select"])
          [] k = "validate_select"      -> Obj(g["validate_select"])
          [] k = "result_table"         -> Str("iris.predict")
          [] k = "feature_column_code"  -> Obj(g["feature_column_code"])
          [] k = "feature_column_names" -> Obj(g["feature_column_names"])
          [] k = "feature_metas"        -> Obj(g["feature_metas"])
          [] k = "label_meta"           -> Obj(g["label_meta"])
          [] k = "model_params"         -> Dict(r)
          [] k = "save"                 -> Str(PredSave)
          [] k = "batch_size"           -> Num(1)]

\* pred(...) without its datasource argument.
PredKwargsNoDatasource(g, r) ==
    [k \in {"is_keras_model", "estimator", "select", "result_table",
            "feature_column_code", "feature_column_names", "feature_metas",
            "label_meta", "model_params", "save", "batch_size"} |->
        CASE k = "is_keras_model"       -> Bool(TRUE)
          [] k = "estimator"            -> Str("sqlflow_models.DNNClassifier")
          [] k = "select"               -> Obj(g["select"])
          [] k = "result_table"         -> Str("iris.predict")
          [] k = "feature_column_code"  -> Obj(g["feature_column_code"])
          [] k = "feature_column_names" -> Obj(g["feature_column_names"])
          [] k = "feature_metas"        -> Obj(g["feature_metas"])
          [] k = "label_meta"           -> Obj(g["label_meta"])
          [] k = "model_params"         -> Dict(r)
          [] k = "save"                 -> Str(PredSave)
          [] k = "batch_size"           -> Num(1)]

\* The keyword arguments of pred(...).
PredKwargs(g, r) ==
    [k \in {"is_keras_model", "datasource", "estimator", "select",
            "result_table", "feature_column_code", "feature_column_names",
            "feature_metas", "label_meta", "model_params", "save",
            "batch_size"} |->
        CASE k = "is_keras_model"       -> Bool(TRUE)
          [] k = "datasource"           -> Obj(g["datasource"])
          [] k = "estimator"            -> Str("sqlflow_models.DNNClassifier")
          [] k = "select"               -> Obj(g["select"])
          [] k = "result_table"         -> Str("iris.predict")
          [] k = "feature_column_code"  -> Obj(g["feature_column_code"])
          [] k = "feature_column_names" -> Obj(g["feature_column_names"])
          [] k = "feature_metas"        -> Obj(g["feature_metas"])
          [] k = "label_meta"           -> Obj(g["label_meta"])
          [] k = "model_params"         -> Dict(r)
          [] k = "save"                 -> Str(PredSave)
          [] k = "batch_size"           -> Num(1)]

\* ---------------------------------------------------------------------------
\* Control flow of the module body

\* The guarded block with its two statements in the other order.
BlockEntryPredFirst == "L33"

\* The first statement of the guarded block.
BlockEntry == "L19"

\* The statement after the train call.
AfterTrain == "L33"

\* A second pred statement after the first.
AfterPredAgain == "L33"

\* The pred call is the last statement of the file.
AfterPred == "end"

\* try: ... except: pass around a call; the run goes on with the next statement.
OnExceptionSwallow(fn, e) ==
    [pc |-> IF fn = TrainName THEN AfterTrain ELSE AfterPred, exc |-> NoExc]

\* No try statement encloses the calls: an exception ends the run and reaches
\* the caller of the script as it was raised.
OnException(fn, e) == [pc |-> "raised", exc |-> [src |-> fn, err |-> e]]

\* ---------------------------------------------------------------------------
\* What the callees do

\* The call that is running, the last one made.
Cur == calls[Len(calls)]

SetLast(cs, st, e) == [cs EXCEPT ![Len(cs)].status = st, ![Len(cs)].err = e]

\* The dicts a callee can turn its model_params argument into: an entry
\* removed, changed or added, or the hidden_units list changed.
DictMutations(d) ==
    {[k \in DOMAIN d \ {x} |-> d[k]] : x \in DOMAIN d}
    \cup (IF "n_classes" \in DOMAIN d
          THEN {[d EXCEPT !["n_classes"] = 4]} ELSE {})
    \cup (IF "hidden_units" \in DOMAIN d /\ Len(d["hidden_units"]) < 3
          THEN {[d EXCEPT !["hidden_units"] = Append(@, 30)]} ELSE {})
    \cup (IF "model_dir" \notin DOMAIN d
          THEN {d @@ ("model_dir" :> 1)} ELSE {})

\* The imported objects a call was handed.
HandedObjects(c) ==
    {c.kwargs[k].s : k \in {x \in DOMAIN c.kwargs : c.kwargs[x].kind = "obj"}}

\* train persists the trained model under its save argument.
Persist(st, kw) == st \cup {kw["save"].s}

\* ---------------------------------------------------------------------------
\* Initial state: nothing imported, nothing called.

Init ==
    /\ pc = "L14"
    /\ name \in ModuleNames
    /\ globals = <<>>
    /\ imported = [o \in ImportedNames |-> 0]
    /\ dicts = <<>>
    /\ calls = <<>>
    /\ store = {}
    /\ tables = {}
    /\ exc = NoExc
    /\ muts = 0

\* from ...estimator_train_pred import datasource, select, ...
Import14 ==
    /\ pc = "L14"
    /\ pc' = "L15"
    /\ globals' = [o \in ImportedNames |-> o]
    /\ UNCHANGED <<name, imported, dicts, calls, store, tables, exc, muts>>

\* from sqlflow_submitter.tensorflow.train import train
Import15 ==
    /\ pc = "L15"
    /\ pc' = "L16"
    /\ globals' = globals @@ (TrainName :> TrainName)
    /\ UNCHANGED <<name, imported, dicts, calls, store, tables, exc, muts>>

\* from sqlflow_submitter.tensorflow.predict import pred
Import16 ==
    /\ pc = "L16"
    /\ pc' = "L18"
    /\ globals' = globals @@ (PredName :> PredName)
    /\ UNCHANGED <<name, imported, dicts, calls, store, tables, exc, muts>>

\* An import statement fails; the ImportError ends the run.
ImportFails ==
    /\ pc \in {"L14", "L15", "L16"}
    /\ pc' = "raised"
    /\ exc' = [src |-> "import", err |-> "ImportError"]
    /\ UNCHANGED <<name, globals, imported, dicts, calls, store, tables, muts>>

\* if __name__ == "__main__":
Guard ==
    /\ pc = "L18"
    /\ pc' = IF IsMain(name) THEN BlockEntry ELSE "end"
    /\ UNCHANGED <<name, globals, imported, dicts, calls, store, tables, exc, muts>>

\* train(...): the arguments are evaluated and train is entered.
CallTrain ==
    /\ pc = "L19"
    /\ LET r  == TrainModelParamsRef(dicts)
           ds == Alloc(dicts, r, TrainModelParams)
       IN /\ dicts' = ds
          /\ calls' = Append(calls,
                [fn |-> globals[TrainName], kwargs |-> TrainKwargs(globals, r),
                 dict |-> ds[r], revs |-> imported, models |-> store,
                 status |-> "running", err |-> ""])
    /\ pc' = "in_train"
    /\ UNCHANGED <<name, globals, imported, store, tables, exc, muts>>

\* pred(...): the arguments are evaluated and pred is entered.
CallPred ==
    /\ pc = "L33"
    /\ LET r  == PredModelParamsRef(dicts, calls)
           ds == Alloc(dicts, r, PredModelParams)
       IN /\ dicts' = ds
          /\ calls' = Append(calls,
                [fn |-> globals[PredName], kwargs |-> PredKwargs(globals, r),
                 dict |-> ds[r], revs |-> imported, models |-> store,
                 status |-> "running", err |-> ""])
    /\ pc' = "in_pred"
    /\ UNCHANGED <<name, globals, imported, store, tables, exc, muts>>

\* The running callee changes in place one of the objects it was handed.
CalleeMutatesObject ==
    /\ pc \in {"in_train", "in_pred"}
    /\ muts < MaxMutations
    /\ \E o \in HandedObjects(Cur) :
          imported' = [imported EXCEPT ![o] = @ + 1]
    /\ muts' = muts + 1
    /\ UNCHANGED <<pc, name, globals, dicts, calls, store, tables, exc>>

\* The running callee changes in place the dict it got as model_params.
CalleeMutatesDict ==
    /\ pc \in {"in_train", "in_pred"}
    /\ muts < MaxMutations
    /\ LET r == Cur.kwargs["model_params"].n
       IN \E d \in DictMutations(dicts[r]) :
             dicts' = [dicts EXCEPT ![r] = d]
    /\ muts' = muts + 1
    /\ UNCHANGED <<pc, name, globals, imported, calls, store, tables, exc>>

\* train returns, the model persisted under its save argument.
TrainReturns ==
    /\ pc = "in_train"
    /\ store' = Persist(store, Cur.kwargs)
    /\ calls' = SetLast(calls, "returned", "")
    /\ pc' = AfterTrain
    /\ UNCHANGED <<name, globals, imported, dicts, tables, exc, muts>>

\* train raises.
TrainRaises ==
    /\ pc = "in_train"
    /\ \E e \in Failures :
          /\ calls' = SetLast(calls, "raised", e)
          /\ pc' = OnException(TrainName, e).pc
          /\ exc' = OnException(TrainName, e).exc
    /\ UNCHANGED <<name, globals, imported, dicts, store, tables, muts>>

\* pred returns: it loaded the model saved under its save argument and wrote
\* the predictions to its result table.
PredReturns ==
    /\ pc = "in_pred"
    /\ Cur.kwargs["save"].s \in store
    /\ tables' = tables \cup {Cur.kwargs["result_table"].s}
    /\ calls' = SetLast(calls, "returned", "")
    /\ pc' = AfterPred
    /\ UNCHANGED <<name, globals, imported, dicts, store, exc, muts>>

\* pred raises.
PredRaises ==
    /\ pc = "in_pred"
    /\ \E e \in Failures :
          /\ calls' = SetLast(calls, "raised", e)
          /\ pc' = OnException(PredName, e).pc
          /\ exc' = OnException(PredName, e).exc
    /\ UNCHANGED <<name, globals, imported, dicts, store, tables, muts>>

Next ==
    \/ Import14
    \/ Import15
    \/ Import16
    \/ ImportFails
    \/ Guard
    \/ CallTrain
    \/ CallPred
    \/ CalleeMutatesObject
    \/ CalleeMutatesDict
    \/ TrainReturns
    \/ TrainRaises
    \/ PredReturns
    \/ PredRaises

Spec == Init /\ [][Next]_vars

\* ---------------------------------------------------------------------------
\* Properties

TrainCalls == {i \in 1..Len(calls) : calls[i].fn = "train"}
PredCalls == {i \in 1..Len(calls) : calls[i].fn = "pred"}

\* The run of the script as the main program came to its end without failure.
CompleteMainRun == pc = "end" /\ name = "__main__"

\* C1: run as the main program, the script calls train exactly once and then
\* pred exactly once and nothing else: the calls made so far are always a
\* prefix of [train, pred], and a complete run without failure made exactly
\* the calls [train, pred].
C1_TrainThenPredOnly ==
    /\ Len(calls) <= 2
    /\ \A i \in 1..Len(calls) : calls[i].fn = <<"train", "pred">>[i]
    /\ CompleteMainRun => Len(calls) = 2

C1_Witness ==
    /\ CompleteMainRun
    /\ Len(calls) = 2
    /\ calls[2].status = "returned"

\* C2: pred is never started before train has returned, and no two calls are
\* in progress at the same time.
C2_TrainReturnsBeforePred ==
    /\ \A i \in PredCalls :
          \E j \in TrainCalls : j < i /\ calls[j].status = "returned"
    /\ Cardinality({i \in 1..Len(calls) : calls[i].status = "running"}) <= 1
    /\ pc = "in_pred" =>
          \A j \in TrainCalls : calls[j].status = "returned"

C2_Witness ==
    /\ pc = "in_pred"
    /\ calls[1].fn = "train"
    /\ calls[1].status = "returned"
    /\ calls[2].status = "running"

\* C3: train is called with is_keras_model=True, the estimator
\* "sqlflow_models.DNNClassifier", model_params {"n_classes": 3,
\* "hidden_units": [10, 20]}, save "mymodel_keras", batch_size 1, epochs 1,
\* verbose 0, and the seven imported objects under their own names.
C3_TrainArguments ==
    \A i \in TrainCalls :
       /\ DOMAIN calls[i].kwargs =
             {"is_keras_model", "datasource", "estimator", "select",
              "validate_select", "feature_column_code", "feature_column_names",
              "feature_metas", "label_meta", "model_params", "save",
              "batch_size", "epochs", "verbose"}
       /\ calls[i].kwargs["is_keras_model"] = Bool(TRUE)
       /\ calls[i].kwargs["estimator"] = Str("sqlflow_models.DNNClassifier")
       /\ calls[i].kwargs["save"] = Str("mymodel_keras")
       /\ calls[i].kwargs["batch_size"] = Num(1)
       /\ calls[i].kwargs["epochs"] = Num(1)
       /\ calls[i].kwargs["verbose"] = Num(0)
       /\ \A k \in ImportedNames : calls[i].kwargs[k] = Obj(k)
       /\ calls[i].kwargs["model_params"].kind = "dict"
       /\ calls[i].dict = ("n_classes" :> 3) @@ ("hidden_units" :> <<10, 20>>)
       /\ \A o \in ImportedNames : calls[i].revs[o] = 0

C3_Witness ==
    /\ pc = "in_train"
    /\ Len(calls) = 1
    /\ calls[1].fn = "train"
    /\ muts = 0

\* The keywords both calls are given.
SharedKeywords ==
    {"is_keras_model", "datasource", "estimator", "select",
     "feature_column_code", "feature_column_names", "feature_metas",
     "label_meta", "model_params", "save", "batch_size"}

\* C4: pred is called with the arguments it shares with train, each the value
\* train was given (the same imported object, an equal literal, a model_params
\* dict with the contents train's had when it was passed), with result_table
\* "iris.predict", save "mymodel_keras" and batch_size 1, and with no keyword
\* besides the shared ones and result_table.
C4_PredArguments ==
    \A i \in PredCalls :
       /\ DOMAIN calls[i].kwargs = SharedKeywords \cup {"result_table"}
       /\ calls[i].kwargs["result_table"] = Str("iris.predict")
       /\ calls[i].kwargs["save"] = Str("mymodel_keras")
       /\ calls[i].kwargs["batch_size"] = Num(1)
       /\ TrainCalls # {}
       /\ \A j \in TrainCalls :
             /\ SharedKeywords \subseteq DOMAIN calls[j].kwargs
             /\ \A k \in SharedKeywords \ {"model_params"} :
                   calls[i].kwargs[k] = calls[j].kwargs[k]
             /\ calls[i].kwargs["model_params"].kind = "dict"
             /\ calls[i].dict = calls[j].dict

C4_Witness ==
    /\ Len(calls) = 2
    /\ calls[2].fn = "pred"
    /\ calls[2].status = "returned"
    /\ "iris.predict" \in tables

\* C5: a failure of train or pred ends the run in that very failure, nothing
\* is called afterwards: after a failure of train pred is never called, after
\* a failure of pred the calls made are one train and one pred.
C5_FailurePropagates ==
    \A i \in 1..Len(calls) :
       calls[i].status = "raised" =>
          /\ pc = "raised"
          /\ exc = [src |-> calls[i].fn, err |-> calls[i].err]
          /\ calls[i].err \in Failures
          /\ i = Len(calls)
          /\ calls[i].fn = "train" => PredCalls = {}
          /\ calls[i].fn = "pred" =>
                Len(calls) = 2 /\ calls[1].fn = "train" /\ TrainCalls = {1}

C5_Witness ==
    /\ pc = "raised"
    /\ Len(calls) = 2
    /\ calls[2].fn = "pred"
    /\ calls[2].status = "raised"
    /\ exc.err = "ValueError"

\* C6: loaded otherwise than as the main program, the file calls neither train
\* nor pred.
C6_NoCallUnlessMain ==
    name # "__main__" =>
       /\ calls = <<>>
       /\ pc \in {"L14", "L15", "L16", "L18", "end", "raised"}
       /\ store = {}
       /\ tables = {}

C6_Witness ==
    /\ name # "__main__"
    /\ pc = "end"
    /\ calls = <<>>

\* The configuration values, by the keyword they are passed under.
ConfigNames ==
    {"datasource", "select", "validate_select", "estimator",
     "feature_column_names", "feature_column_code", "feature_metas",
     "label_meta", "model_params", "save", "batch_size", "epochs", "verbose",
     "result_table"}

\* The number of call expressions that consume configuration value k.
Uses(k) == Cardinality({i \in 1..Len(calls) : k \in DOMAIN calls[i].kwargs})

\* C7 as stated: in a complete run every configuration value is consumed
\* exactly once across the two calls.
C7_ConsumedExactlyOnce ==
    CompleteMainRun => \A k \in ConfigNames : Uses(k) = 1

\* The statements of this file leave the imported objects, the dicts already
\* built and the bindings of the module's names as they are.
C7_FileStepKeepsValues ==
    pc \notin {"in_train", "in_pred"} =>
       /\ imported' = imported
       /\ \A i \in 1..Len(dicts) : i <= Len(dicts') /\ dicts'[i] = dicts[i]
       /\ \A n \in DOMAIN globals :
             n \in DOMAIN globals' /\ globals'[n] = globals[n]

\* In a complete run validate_select, epochs and verbose have been consumed
\* once (by train), result_table once (by pred) and every other value twice,
\* once by each call.
C7_UseCounts ==
    CompleteMainRun =>
       /\ \A k \in {"validate_select", "epochs", "verbose"} :
             Uses(k) = 1 /\ k \in DOMAIN calls[1].kwargs
       /\ Uses("result_table") = 1 /\ "result_table" \in DOMAIN calls[2].kwargs
       /\ \A k \in ConfigNames \ {"validate_select", "epochs", "verbose",
                                  "result_table"} : Uses(k) = 2

\* C7, amended: every configuration value is consumed once by each call
\* expression it appears in (validate_select, epochs and verbose by train
\* only, result_table by pred only, every other value by both, hence twice),
\* and no statement of this file changes a configuration value.
C7_ConsumedOncePerCall ==
    /\ [](C7_UseCounts)
    /\ [][C7_FileStepKeepsValues]_vars

C7_Witness ==
    /\ CompleteMainRun
    /\ Uses("datasource") = 2
    /\ Uses("validate_select") = 1
    /\ muts = MaxMutations

\* C8: when pred is called, train has returned and a model is persisted under
\* the save identifier pred is given, which is the one train was given.
C8_ModelSavedBeforePred ==
    \A i \in PredCalls :
       /\ calls[i].kwargs["save"].s \in calls[i].models
       /\ calls[i].kwargs["save"].s = "mymodel_keras"
       /\ \E j \in TrainCalls :
             /\ j < i
             /\ calls[j].status = "returned"
             /\ calls[j].kwargs["save"] = calls[i].kwargs["save"]

C8_Witness ==
    /\ pc = "in_pred"
    /\ "mymodel_keras" \in calls[2].models
    /\ store = {"mymodel_keras"}

\* C9: the model_params dict pred is given is a new object, not the one train
\* was given, and it holds {"n_classes": 3, "hidden_units": [10, 20]} whatever
\* train did to its own.
C9_PredModelParamsFresh ==
    \A i \in PredCalls :
       /\ calls[i].dict = ("n_classes" :> 3) @@ ("hidden_units" :> <<10, 20>>)
       /\ \A j \in TrainCalls :
             calls[j].kwargs["model_params"] # calls[i].kwargs["model_params"]

C9_Witness ==
    /\ Len(calls) = 2
    /\ calls[2].fn = "pred"
    /\ dicts[calls[1].kwargs["model_params"].n]
          # ("n_classes" :> 3) @@ ("hidden_units" :> <<10, 20>>)
    /\ calls[2].dict = ("n_classes" :> 3) @@ ("hidden_units" :> <<10, 20>>)

====
